---- MODULE Spec2Model ----
(***************************************************************************)
(* OBS Game Auto-Recorder: the OBS script (obs_game_recorder.py) and the   *)
(* manager CLI (debug_process_checker.py) as one state machine.            *)
(*                                                                         *)
(* Strings are sequences of one-character strings, so that lower() and the *)
(* substring test `in` are computed and not assumed.                       *)
(***************************************************************************)
EXTENDS Integers, Sequences, FiniteSets, TLC

VARIABLES
    os_windows,            \* the desktop: top-level windows in enumeration order
    proc_table,            \* the OS process table: pid -> executable name (raw case)
    config_file,           \* games_config.json on disk
    games_config,          \* obs_game_recorder.games_config (in memory)
    icon_files,            \* the icon files that exist under ICONS_DIR
    recording_active,      \* the host: obs_frontend_recording_active()
    is_recording_for_game, \* obs_game_recorder.is_recording_for_game
    current_game,          \* obs_game_recorder.current_game (<<>> is None)
    current_settings,      \* obs_game_recorder.current_settings ("None" until OBS hands the settings over)
    timers,                \* the host: registrations of check_program_callback as a timer
    last,                  \* observation: the last operation of the program, what it saw and
                           \* returned (reset when the config file is changed by hand)
    last_cmd,              \* observation: the last command the script sent to the host
    pid_file,              \* watcher.pid on disk (<<>>: no file, <<pid>>: the pid written in it)
    state_file,            \* game_state on disk (<<>>: no file, <<state>>: its content)
    watchers,              \* the live processes that start_watcher spawned: pid -> "booting"
                           \* (PID file not written yet) or "polling"
    cli,                   \* each running instance of the CLI: where it is in start_watcher or
                           \* stop_watcher, and the pid that its is_watcher_running returned
    stopped,               \* observation: a stop_watcher has completed on a running watcher
                           \* and no start_watcher has begun since
    rec_owner              \* observation: who started the recording that is active now ("none",
                           \* "script", "user", or "user_before_game": by the user, and it was
                           \* already on at the tick that first detected a game)

osVars  == <<os_windows, proc_table>>
cfgVars == <<config_file, games_config, icon_files>>
recVars == <<recording_active, is_recording_for_game, current_game>>
obsVars == <<last, last_cmd, rec_owner>>
watcherVars == <<pid_file, state_file, watchers, cli, stopped>>
vars    == <<os_windows, proc_table, config_file, games_config, icon_files,
             recording_active, is_recording_for_game, current_game, current_settings,
             timers, last, last_cmd, rec_owner, pid_file, state_file, watchers, cli,
             stopped>>

----------------------------------------------------------------------------
(* Bounds and input sets *)

MaxWindows == 2
MaxGames   == 2

Pids      == {1, 2}
Titles    == { <<>>, <<"A">>, <<"a", "B">>, <<"b">> }
ExeNames  == { <<"A", "b">>, <<"x">> }
Selectors == { <<>>, <<"a">>, <<"A">>, <<"b">> }
Targets   == { <<>>, <<"a">>, <<"B">>, <<"a", "b">> }
\* what can be typed into a selector field: a selector, or one with a space after it
Typed     == Selectors \cup { <<"a", " ">> }

\* two instances of the CLI running side by side
Clis      == {1, 2}
\* what the watcher writes into the state file
WatcherStates == {"idle", "recording"}

----------------------------------------------------------------------------
(* str.lower() and the substring test *)

LowerChar(c) ==
    CASE c = "A" -> "a"
      [] c = "B" -> "b"
      [] OTHER   -> c

RECURSIVE lower(_)
lower(s) ==
    IF s = <<>> THEN <<>> ELSE <<LowerChar(Head(s))>> \o lower(Tail(s))

\* Python's `needle in hay` on strings
str_in(needle, hay) ==
    \E i \in 0..(Len(hay) - Len(needle)) : SubSeq(hay, i + 1, i + Len(needle)) = needle

----------------------------------------------------------------------------
(* Process detection *)

\* enum_callback keeps a window when it is visible and its title is not empty
RECURSIVE get_visible_windows(_)
get_visible_windows(ws) ==
    IF ws = <<>> THEN <<>>
    ELSE LET w == Head(ws) IN
         IF w.visible /\ Len(w.title) > 0
         THEN <<[title |-> w.title, pid |-> w.pid]>> \o get_visible_windows(Tail(ws))
         ELSE get_visible_windows(Tail(ws))

\* processes[entry.th32ProcessID] = entry.szExeFile.lower()
get_process_list(table) ==
    [p \in DOMAIN table |-> lower(table[p])]

RECURSIVE detailed_loop(_, _, _)
detailed_loop(windows, processes_map, seen_pids) ==
    IF windows = <<>> THEN <<>>
    ELSE LET win == Head(windows) IN
         IF win.pid \in seen_pids
         THEN detailed_loop(Tail(windows), processes_map, seen_pids)
         ELSE <<[name         |-> IF win.pid \in DOMAIN processes_map
                                  THEN processes_map[win.pid] ELSE <<>>,
                 pid          |-> win.pid,
                 window_title |-> win.title]>>
              \o detailed_loop(Tail(windows), processes_map, seen_pids \cup {win.pid})

get_processes_detailed(ws, table) ==
    detailed_loop(get_visible_windows(ws), get_process_list(table), {})

RECURSIVE scan_processes(_, _)
scan_processes(target_lower, processes) ==
    IF processes = <<>> THEN [running |-> FALSE, proc |-> <<>>]
    ELSE LET proc == Head(processes) IN
         IF str_in(target_lower, lower(proc.window_title))
         THEN [running |-> TRUE, proc |-> <<proc>>]
         ELSE IF str_in(target_lower, proc.name)
         THEN [running |-> TRUE, proc |-> <<proc>>]
         ELSE scan_processes(target_lower, Tail(processes))

\* returns (is_running, proc); proc is <<>> for None
is_program_running(target_name, processes) ==
    IF target_name = <<>> THEN [running |-> FALSE, proc |-> <<>>]
    ELSE scan_processes(lower(target_name), processes)

----------------------------------------------------------------------------
(* The config: a JSON object {"games": [{name, selector, icon_path, enabled}]} *)

\* a parsed JSON document, as far as the program looks into it
JsonObject(keys, games) == [kind |-> "object", keys |-> keys, games |-> games]
JsonArray               == [kind |-> "array",  keys |-> {},   games |-> <<>>]

\* {"games": []}
EmptyConfig == JsonObject({"games"}, <<>>)

\* config.get("games", [])
get_games(config) ==
    IF config.kind = "object" /\ "games" \in config.keys THEN config.games ELSE <<>>

new_game(name, selector, enabled) ==
    [name |-> name, selector |-> selector, icon_path |-> <<>>, enabled |-> enabled]

\* The text of the file is a sequence of JSON tokens.
Punct(c)   == [t |-> c,      key |-> "", str |-> <<>>, bool |-> FALSE]
Key(k)     == [t |-> "key",  key |-> k,  str |-> <<>>, bool |-> FALSE]
Str(s)     == [t |-> "str",  key |-> "", str |-> s,    bool |-> FALSE]
Bool(b)    == [t |-> "bool", key |-> "", str |-> <<>>, bool |-> b]

\* a faulty dump_game that writes every entry as enabled
dump_game_enabled_lost(g) ==
    << Punct("{"),
       Key("name"),      Str(g.name),
       Key("selector"),  Str(g.selector),
       Key("icon_path"), Str(g.icon_path),
       Key("enabled"),   Bool(TRUE),
       Punct("}") >>

\* one entry as json.dump writes it
dump_game(g) ==
    << Punct("{"),
       Key("name"),      Str(g.name),
       Key("selector"),  Str(g.selector),
       Key("icon_path"), Str(g.icon_path),
       Key("enabled"),   Bool(g.enabled),
       Punct("}") >>

RECURSIVE dump_games(_)
dump_games(games) ==
    IF games = <<>> THEN <<>> ELSE dump_game(Head(games)) \o dump_games(Tail(games))

\* json.dump(config, f, indent=2)
json_dump(config) ==
    IF config.kind = "array" THEN << Punct("["), Punct("]") >>
    ELSE IF "games" \notin config.keys THEN << Punct("{"), Punct("}") >>
    ELSE << Punct("{"), Key("games"), Punct("[") >>
         \o dump_games(config.games)
         \o << Punct("]"), Punct("}") >>

IsTok(text, i, tok) == i <= Len(text) /\ text[i] = tok
IsKind(text, i, t)  == i <= Len(text) /\ text[i].t = t

\* one {"name": .., "selector": .., "icon_path": .., "enabled": ..} at position i
parse_game(text, i) ==
    IF /\ IsTok(text, i, Punct("{"))
       /\ IsTok(text, i + 1, Key("name"))      /\ IsKind(text, i + 2, "str")
       /\ IsTok(text, i + 3, Key("selector"))  /\ IsKind(text, i + 4, "str")
       /\ IsTok(text, i + 5, Key("icon_path")) /\ IsKind(text, i + 6, "str")
       /\ IsTok(text, i + 7, Key("enabled"))   /\ IsKind(text, i + 8, "bool")
       /\ IsTok(text, i + 9, Punct("}"))
    THEN [ok |-> TRUE, next |-> i + 10,
          game |-> << [name      |-> text[i + 2].str,
                       selector  |-> text[i + 4].str,
                       icon_path |-> text[i + 6].str,
                       enabled   |-> text[i + 8].bool] >>]
    ELSE [ok |-> FALSE, next |-> i, game |-> <<>>]

\* the elements of the "games" array from position i up to its "]"
RECURSIVE parse_games(_, _)
parse_games(text, i) ==
    IF IsTok(text, i, Punct("]")) THEN [ok |-> TRUE, next |-> i + 1, games |-> <<>>]
    ELSE LET g == parse_game(text, i) IN
         IF ~g.ok THEN [ok |-> FALSE, next |-> i, games |-> <<>>]
         ELSE LET rest == parse_games(text, g.next) IN
              [ok |-> rest.ok, next |-> rest.next, games |-> g.game \o rest.games]

\* json.load(f): ok = FALSE is json.JSONDecodeError
json_load(text) ==
    IF text = << Punct("["), Punct("]") >> THEN [ok |-> TRUE, val |-> JsonArray]
    ELSE IF text = << Punct("{"), Punct("}") >> THEN [ok |-> TRUE, val |-> JsonObject({}, <<>>)]
    ELSE IF IsTok(text, 1, Punct("{")) /\ IsTok(text, 2, Key("games")) /\ IsTok(text, 3, Punct("["))
    THEN LET gs == parse_games(text, 4) IN
         IF gs.ok /\ IsTok(text, gs.next, Punct("}")) /\ Len(text) = gs.next
         THEN [ok |-> TRUE, val |-> JsonObject({"games"}, gs.games)]
         ELSE [ok |-> FALSE, val |-> JsonArray]
    ELSE [ok |-> FALSE, val |-> JsonArray]

\* the file on disk
NoFile     == [exists |-> FALSE, text |-> <<>>]
File(text) == [exists |-> TRUE,  text |-> text]

\* obs_game_recorder.load_config: the new games_config and the file it leaves
obs_load_config(file) ==
    IF file.exists
    THEN LET r == json_load(file.text) IN
         [file   |-> file,
          config |-> IF ~r.ok THEN EmptyConfig                      \* except Exception
                     ELSE IF r.val.kind # "object" THEN EmptyConfig \* TypeError, caught
                     ELSE IF "games" \notin r.val.keys
                          THEN JsonObject({"games"}, <<>>)
                          ELSE r.val]
    ELSE [file |-> File(json_dump(EmptyConfig)), config |-> EmptyConfig]

\* obs_game_recorder.save_config
obs_save_config(config) == File(json_dump(config))

\* debug_process_checker.load_config
cli_load_config(file) ==
    IF file.exists
    THEN LET r == json_load(file.text) IN
         IF r.ok THEN r.val ELSE EmptyConfig
    ELSE EmptyConfig

\* debug_process_checker.save_config
cli_save_config(config) == File(json_dump(config))

----------------------------------------------------------------------------
(* Config operations of the OBS script *)

same_selector(game, selector) == lower(game.selector) = lower(selector)

\* the index of the first entry with this selector ignoring case, 0 when there is none
first_match(games, selector) ==
    IF \E i \in 1..Len(games) : same_selector(games[i], selector)
    THEN CHOOSE i \in 1..Len(games) :
            /\ same_selector(games[i], selector)
            /\ \A j \in 1..(i - 1) : ~same_selector(games[j], selector)
    ELSE 0

\* add_game: (success, the config afterwards); the config is saved on success
add_game(config, name, selector, enabled) ==
    IF first_match(get_games(config), selector) # 0
    THEN [ok |-> FALSE, config |-> config]
    ELSE [ok |-> TRUE,
          config |-> [config EXCEPT !.games = Append(@, new_game(name, selector, enabled))]]

\* a faulty without_selector that drops the first match only
RECURSIVE without_selector_first(_, _)
without_selector_first(games, selector) ==
    IF games = <<>> THEN <<>>
    ELSE IF same_selector(Head(games), selector)
         THEN Tail(games)
         ELSE <<Head(games)>> \o without_selector_first(Tail(games), selector)

\* [g for g in games if g.get("selector", "").lower() != selector.lower()]
RECURSIVE without_selector(_, _)
without_selector(games, selector) ==
    IF games = <<>> THEN <<>>
    ELSE IF same_selector(Head(games), selector)
         THEN without_selector(Tail(games), selector)
         ELSE <<Head(games)>> \o without_selector(Tail(games), selector)

\* remove_game: the icon file of the first match is deleted, every match is dropped
remove_game(config, icons, selector) ==
    LET games == get_games(config)
        k     == first_match(games, selector)
    IN  [icons  |-> IF k # 0 /\ games[k].icon_path # <<>>
                    THEN icons \ {games[k].icon_path} ELSE icons,
         config |-> [config EXCEPT !.games = without_selector(games, selector)]]

\* set_game_enabled: (found, the config afterwards); saved when found
set_game_enabled(config, selector, enabled) ==
    LET k == first_match(get_games(config), selector) IN
    IF k = 0 THEN [ok |-> FALSE, config |-> config]
    ELSE [ok |-> TRUE, config |-> [config EXCEPT !.games[k].enabled = enabled]]

\* for game in games: game['enabled'] = obs_data_get_bool(settings, "game_enabled_" + selector)
RECURSIVE checkbox_loop(_, _)
checkbox_loop(games, settings) ==
    IF games = <<>> THEN <<>>
    ELSE <<[Head(games) EXCEPT !.enabled = settings[Head(games).selector]]>>
         \o checkbox_loop(Tail(games), settings)

apply_checkboxes(config, settings) ==
    [config EXCEPT !.games = checkbox_loop(get_games(config), settings)]

----------------------------------------------------------------------------
(* Icons *)

WordChars == {"a", "b", "A", "B", "N", "M", "_", "-"}

\* re.sub(r'[^\w\-]', '_', name)
RECURSIVE safe_name(_)
safe_name(name) ==
    IF name = <<>> THEN <<>>
    ELSE <<IF Head(name) \in WordChars THEN Head(name) ELSE "_">> \o safe_name(Tail(name))

\* os.path.join(ICONS_DIR, safe_name + ".png")
icon_path_for(name) == <<"/">> \o safe_name(name) \o <<".">>

\* a faulty try_extract_icon_for_game that assigns the icon_path and does not save
try_extract_icon_for_game_unsaved(config, icons, k, extracted) ==
    LET game == config.games[k] IN
    IF game.icon_path # <<>> /\ game.icon_path \in icons
    THEN [saved |-> FALSE, config |-> config, icons |-> icons]
    ELSE IF extracted
    THEN [saved  |-> FALSE,
          config |-> [config EXCEPT !.games[k].icon_path = icon_path_for(game.name)],
          icons  |-> icons \cup {icon_path_for(game.name)}]
    ELSE [saved |-> FALSE, config |-> config, icons |-> icons]

\* try_extract_icon_for_game on entry k, extract_icon_from_window returning `extracted`:
\* (saved, config, icons)
try_extract_icon_for_game(config, icons, k, extracted) ==
    LET game == config.games[k] IN
    IF game.icon_path # <<>> /\ game.icon_path \in icons
    THEN [saved |-> FALSE, config |-> config, icons |-> icons]
    ELSE IF extracted
    THEN [saved  |-> TRUE,
          config |-> [config EXCEPT !.games[k].icon_path = icon_path_for(game.name)],
          icons  |-> icons \cup {icon_path_for(game.name)}]
    ELSE [saved |-> FALSE, config |-> config, icons |-> icons]

\* a faulty is_enabled that lets disabled entries through
is_enabled_ignored(game) == TRUE

\* game.get("enabled", True)
is_enabled(game) == game.enabled

\* the first enabled entry whose selector is detected: (index or 0, proc)
RECURSIVE scan_games(_, _, _)
scan_games(games, i, processes) ==
    IF i > Len(games) THEN [idx |-> 0, proc |-> <<>>]
    ELSE LET game == games[i] IN
         IF ~is_enabled(game) THEN scan_games(games, i + 1, processes)
         ELSE IF game.selector # <<>> /\ is_program_running(game.selector, processes).running
         THEN [idx |-> i, proc |-> is_program_running(game.selector, processes).proc]
         ELSE scan_games(games, i + 1, processes)

check_any_game_running(config, processes) == scan_games(get_games(config), 1, processes)

----------------------------------------------------------------------------
(* str.strip() *)

RECURSIVE lstrip(_)
lstrip(s) == IF s # <<>> /\ Head(s) = " " THEN lstrip(Tail(s)) ELSE s

RECURSIVE rstrip(_)
rstrip(s) == IF s # <<>> /\ s[Len(s)] = " " THEN rstrip(SubSeq(s, 1, Len(s) - 1)) ELSE s

strip(s) == rstrip(lstrip(s))

----------------------------------------------------------------------------
(* Observation of an operation: op, the selector given, the result, and for *)
(* a loader the config it returned; raised = an exception left the handler. *)
(* Of a timer tick: idx = the entry detected (0: none), cmd = the command    *)
(* sent, and active, flag, owner = recording_active, is_recording_for_game  *)
(* and rec_owner as the tick found them.                                    *)

(* saved = the config the operation handed to save_config last (<<>>: none).  *)
(* Of script_update and script_unload: had_timers = the registrations of the *)
(* callback that the call found.  Of the Remove button: removed = how many  *)
(* entries remove_game dropped.                                             *)

Obs(op) == [op |-> op, sel |-> <<>>, ok |-> FALSE, raised |-> FALSE,
            idx |-> 0, cmd |-> "none", prev_cmd |-> "none", active |-> FALSE,
            flag |-> FALSE, owner |-> "none", val |-> EmptyConfig, saved |-> <<>>,
            had_timers |-> 0, removed |-> 0]

\* a faulty timer_remove that leaves the registration in place
timer_remove_nothing(n) == n

\* obs.timer_remove(callback) and obs.timer_add(callback, ms) on the number of registrations
timer_remove(n) == IF n > 0 THEN n - 1 ELSE 0
timer_add(n)    == n + 1

----------------------------------------------------------------------------
(* Handlers of the OBS script *)

\* script_load: current_settings = settings; load_config()
script_load ==
    LET ld == obs_load_config(config_file) IN
    /\ current_settings' = "settings"
    /\ games_config' = ld.config
    /\ config_file' = ld.file
    /\ last' = [Obs("script_load") EXCEPT !.val = ld.config]
    /\ UNCHANGED <<osVars, watcherVars, icon_files, recVars, timers, last_cmd, rec_owner>>

\* script_update: load_config(); the checkboxes of `settings` are applied; save_config()
script_update(settings) ==
    LET ld  == obs_load_config(config_file)
        cfg == apply_checkboxes(ld.config, settings)
    IN  /\ current_settings' = "settings"
        /\ games_config' = cfg
        /\ config_file' = obs_save_config(cfg)
        /\ timers' = timer_add(timer_remove(timers))
        /\ last' = [Obs("script_update") EXCEPT !.saved = <<cfg>>, !.had_timers = timers]
        /\ UNCHANGED <<osVars, watcherVars, icon_files, recVars, last_cmd, rec_owner>>

\* the first entry with g['selector'] == selector, 0 when there is none
exact_match(games, selector) ==
    IF \E i \in 1..Len(games) : games[i].selector = selector
    THEN CHOOSE i \in 1..Len(games) :
            /\ games[i].selector = selector
            /\ \A j \in 1..(i - 1) : games[j].selector # selector
    ELSE 0

\* on_add_game_clicked with the two text fields as typed
on_add_game_clicked(name_in, selector_in, extracted) ==
    LET name      == strip(name_in)
        selector  == strip(selector_in)
        ld        == obs_load_config(config_file)
        r         == add_game(ld.config, name, selector, TRUE)
        processes == get_processes_detailed(os_windows, proc_table)
        running   == is_program_running(selector, processes).running
        k         == exact_match(get_games(r.config), selector)
        ic        == IF r.ok /\ running /\ k # 0
                     THEN try_extract_icon_for_game(r.config, icon_files, k, extracted)
                     ELSE [saved |-> FALSE, config |-> r.config, icons |-> icon_files]
    IN  /\ current_settings # "None"
        /\ name # <<>>
        /\ selector # <<>>
        /\ Len(get_games(ld.config)) < MaxGames
        /\ games_config' = ic.config
        /\ config_file' = IF ic.saved THEN obs_save_config(ic.config)
                          ELSE IF r.ok THEN obs_save_config(r.config)
                          ELSE ld.file
        /\ icon_files' = ic.icons
        /\ last' = [Obs("add_game") EXCEPT
                       !.ok = r.ok,
                       !.saved = IF ic.saved THEN <<ic.config>>
                                 ELSE IF r.ok THEN <<r.config>> ELSE <<>>]
        /\ UNCHANGED <<osVars, watcherVars, recVars, current_settings, timers, last_cmd, rec_owner>>

\* on_remove_game_clicked with the dropdown at `selector`
on_remove_game_clicked(selector) ==
    LET ld == obs_load_config(config_file)
        r  == remove_game(ld.config, icon_files, selector)
    IN  /\ current_settings # "None"
        /\ selector # <<>>
        /\ games_config' = r.config
        /\ config_file' = obs_save_config(r.config)
        /\ icon_files' = r.icons
        /\ last' = [Obs("remove_game") EXCEPT
                       !.saved = <<r.config>>,
                       !.removed = Len(get_games(ld.config)) - Len(get_games(r.config))]
        /\ UNCHANGED <<osVars, watcherVars, recVars, current_settings, timers, last_cmd, rec_owner>>

\* set_game_enabled(selector, enabled) on the config in memory
call_set_game_enabled(selector, enabled) ==
    LET r == set_game_enabled(games_config, selector, enabled) IN
    /\ games_config' = r.config
    /\ config_file' = IF r.ok THEN obs_save_config(r.config) ELSE config_file
    /\ last' = [Obs("set_game_enabled") EXCEPT
                   !.ok = r.ok, !.saved = IF r.ok THEN <<r.config>> ELSE <<>>]
    /\ UNCHANGED <<osVars, watcherVars, icon_files, recVars, current_settings, timers, last_cmd, rec_owner>>

\* on_game_checkbox_changed: the checkboxes are applied to the config in memory and saved
on_game_checkbox_changed(settings) ==
    LET cfg == apply_checkboxes(games_config, settings) IN
    /\ get_games(games_config) # <<>>   \* a checkbox exists only for a listed game
    /\ games_config' = cfg
    /\ config_file' = obs_save_config(cfg)
    /\ last' = [Obs("on_game_checkbox_changed") EXCEPT !.saved = <<cfg>>]
    /\ UNCHANGED <<osVars, watcherVars, icon_files, recVars, current_settings, timers, last_cmd, rec_owner>>

\* a faulty should_start that does not look at is_recording_for_game
should_start_flag_ignored(game, active, flag) == game /\ ~active

\* if game and not recording_active and not is_recording_for_game
should_start(game, active, flag) == game /\ ~active /\ ~flag

\* elif not game and is_recording_for_game
should_stop(game, flag) == ~game /\ flag

\* a faulty next_current_game that leaves current_game as it is on the stop branch
next_current_game_kept(start, stop, current, before, after) ==
    IF start THEN after ELSE current

\* current_game after the tick: `current_game = game` on the start branch, None on the
\* stop branch.  current_game is a reference to the entry, not a copy: when it is the
\* detected entry (`before`) and try_extract_icon_for_game has written the icon_path
\* into that dict, current_game shows the entry as it is now (`after`).
next_current_game(start, stop, current, before, after) ==
    IF start THEN after
    ELSE IF stop THEN <<>>
    ELSE IF current # <<>> /\ current = before THEN after
    ELSE current

\* check_program_callback, one timer tick
check_program_callback(extracted) ==
    LET processes == get_processes_detailed(os_windows, proc_table)
        found     == check_any_game_running(games_config, processes)
        ic        == IF found.idx # 0
                     THEN try_extract_icon_for_game(games_config, icon_files, found.idx, extracted)
                     ELSE [saved |-> FALSE, config |-> games_config, icons |-> icon_files]
        start     == should_start(found.idx # 0, recording_active, is_recording_for_game)
        stop      == ~start /\ should_stop(found.idx # 0, is_recording_for_game)
        newly     == found.idx # 0 /\ (last.op # "check_program_callback" \/ last.idx # found.idx)
    IN  /\ timers > 0
        /\ games_config' = ic.config
        /\ icon_files' = ic.icons
        /\ config_file' = IF ic.saved THEN obs_save_config(ic.config) ELSE config_file
        /\ recording_active' = IF start THEN TRUE ELSE IF stop THEN FALSE ELSE recording_active
        /\ is_recording_for_game' = IF start THEN TRUE ELSE IF stop THEN FALSE
                                    ELSE is_recording_for_game
        /\ current_game' = next_current_game(start, stop, current_game,
                              IF found.idx # 0 THEN <<games_config.games[found.idx]>> ELSE <<>>,
                              IF found.idx # 0 THEN <<ic.config.games[found.idx]>> ELSE <<>>)
        /\ last' = [Obs("check_program_callback") EXCEPT
                       !.idx = found.idx,
                       !.active = recording_active,
                       !.flag = is_recording_for_game,
                       !.owner = rec_owner,
                       !.prev_cmd = last_cmd,
                       !.saved = IF ic.saved THEN <<ic.config>> ELSE <<>>,
                       !.cmd = IF start THEN "start" ELSE IF stop THEN "stop" ELSE "none"]
        /\ last_cmd' = IF start THEN "start" ELSE IF stop THEN "stop" ELSE last_cmd
        /\ rec_owner' = IF start THEN "script" ELSE IF stop THEN "none"
                        ELSE IF newly /\ recording_active /\ rec_owner = "user"
                        THEN "user_before_game" ELSE rec_owner
        /\ UNCHANGED <<osVars, watcherVars, current_settings, timers>>

\* script_unload
script_unload ==
    /\ current_settings # "None"
    /\ timers' = timer_remove(timers)
    /\ last' = [Obs("script_unload") EXCEPT !.had_timers = timers]
    /\ UNCHANGED <<osVars, watcherVars, cfgVars, recVars, current_settings, last_cmd, rec_owner>>

\* is_program_running(target_name) with processes=None: the snapshot is taken by the call
call_is_program_running(target_name) ==
    LET r == is_program_running(target_name, get_processes_detailed(os_windows, proc_table)) IN
    /\ last' = [Obs("is_program_running") EXCEPT !.sel = target_name, !.ok = r.running]
    /\ UNCHANGED <<osVars, watcherVars, cfgVars, recVars, current_settings, timers, last_cmd, rec_owner>>

----------------------------------------------------------------------------
(* The manager CLI: every command loads the file, changes its copy, saves it *)

cliUnchanged == <<osVars, watcherVars, games_config, icon_files, recVars, current_settings, timers,
                  last_cmd, rec_owner>>

\* config["games"] raises KeyError (TypeError on a list) when there is no such key
has_games_key(config) == config.kind = "object" /\ "games" \in config.keys

\* add_game_interactive with the three answers as typed
add_game_interactive(term_in, name_in, selector_in) ==
    LET term     == strip(term_in)
        name     == strip(name_in)
        selector == IF strip(selector_in) # <<>> THEN strip(selector_in) ELSE term
        config   == cli_load_config(config_file)
        dup      == first_match(get_games(config), selector) # 0
        raises   == config.kind # "object" \/ (~dup /\ ~has_games_key(config))
        added    == [config EXCEPT !.games = Append(@, new_game(name, selector, TRUE))]
    IN  /\ term # <<>>
        /\ name # <<>>
        /\ Len(get_games(config)) < MaxGames
        /\ config_file' = IF dup \/ raises THEN config_file ELSE cli_save_config(added)
        /\ last' = [Obs("add_game_interactive") EXCEPT
                       !.ok = ~dup /\ ~raises, !.raised = raises,
                       !.saved = IF dup \/ raises THEN <<>> ELSE <<added>>]
        /\ UNCHANGED cliUnchanged

\* --add <name> <selector>
cli_add(name, selector) ==
    LET config == cli_load_config(config_file)
        raises == ~has_games_key(config)
        added  == [config EXCEPT !.games = Append(@, new_game(name, selector, TRUE))]
    IN  /\ Len(get_games(config)) < MaxGames
        /\ config_file' = IF raises THEN config_file ELSE cli_save_config(added)
        /\ last' = [Obs("cli_add") EXCEPT !.ok = ~raises, !.raised = raises,
                                          !.saved = IF raises THEN <<>> ELSE <<added>>]
        /\ UNCHANGED cliUnchanged

remove_at(games, k) == SubSeq(games, 1, k - 1) \o SubSeq(games, k + 1, Len(games))

\* remove_game_interactive with the number typed (0 cancels, anything out of range is ignored)
remove_game_interactive(choice) ==
    LET config == cli_load_config(config_file)
        games  == get_games(config)
        popped == [config EXCEPT !.games = remove_at(games, choice)]
    IN  /\ config.kind = "object"
        /\ choice \in 1..Len(games)
        /\ config_file' = cli_save_config(popped)
        /\ last' = [Obs("remove_game_interactive") EXCEPT !.saved = <<popped>>]
        /\ UNCHANGED cliUnchanged

\* toggle_game_interactive with the number typed
toggle_game_interactive(choice) ==
    LET config == cli_load_config(config_file)
        games  == get_games(config)
        toggled == [config EXCEPT !.games[choice].enabled = ~games[choice].enabled]
    IN  /\ config.kind = "object"
        /\ choice \in 1..Len(games)
        /\ config_file' = cli_save_config(toggled)
        /\ last' = [Obs("toggle_game_interactive") EXCEPT !.saved = <<toggled>>]
        /\ UNCHANGED cliUnchanged

\* list_games: config = load_config(); config.get("games", [])
list_games ==
    LET config == cli_load_config(config_file) IN
    /\ last' = [Obs("list_games") EXCEPT !.val = config, !.raised = config.kind # "object"]
    /\ UNCHANGED <<config_file, cliUnchanged>>

----------------------------------------------------------------------------
(* The environment: the desktop, the user at the host's record button, and *)
(* whoever edits or deletes the config file by hand                        *)

envUnchanged == <<watcherVars, cfgVars, recVars, current_settings, timers, last, last_cmd, rec_owner>>

open_window(title, pid, visible) ==
    /\ Len(os_windows) < MaxWindows
    /\ os_windows' = Append(os_windows, [title |-> title, pid |-> pid, visible |-> visible])
    /\ UNCHANGED <<proc_table, envUnchanged>>

close_window(i) ==
    /\ i \in 1..Len(os_windows)
    /\ os_windows' = remove_at(os_windows, i)
    /\ UNCHANGED <<proc_table, envUnchanged>>

start_process(pid, exe) ==
    /\ pid \notin DOMAIN proc_table
    /\ proc_table' = (pid :> exe) @@ proc_table
    /\ UNCHANGED <<os_windows, envUnchanged>>

exit_process(pid) ==
    /\ pid \in DOMAIN proc_table
    /\ proc_table' = [p \in DOMAIN proc_table \ {pid} |-> proc_table[p]]
    /\ UNCHANGED <<os_windows, envUnchanged>>

RECURSIVE windows_not_of(_, _)
windows_not_of(ws, pid) ==
    IF ws = <<>> THEN <<>>
    ELSE IF Head(ws).pid = pid THEN windows_not_of(Tail(ws), pid)
         ELSE <<Head(ws)>> \o windows_not_of(Tail(ws), pid)

\* a game starts: a process with one visible titled window
launch_game(pid, title, exe) ==
    /\ pid \notin DOMAIN proc_table
    /\ title # <<>>
    /\ Len(os_windows) < MaxWindows
    /\ proc_table' = (pid :> exe) @@ proc_table
    /\ os_windows' = Append(os_windows, [title |-> title, pid |-> pid, visible |-> TRUE])
    /\ UNCHANGED envUnchanged

\* a game exits: its process and its windows go
close_game(pid) ==
    /\ pid \in DOMAIN proc_table
    /\ proc_table' = [p \in DOMAIN proc_table \ {pid} |-> proc_table[p]]
    /\ os_windows' = windows_not_of(os_windows, pid)
    /\ UNCHANGED envUnchanged

\* the user presses Start Recording / Stop Recording in the host
user_start_recording ==
    /\ ~recording_active
    /\ recording_active' = TRUE
    /\ rec_owner' = "user"
    /\ UNCHANGED <<osVars, watcherVars, cfgVars, is_recording_for_game, current_game,
                   current_settings, timers, last, last_cmd>>

user_stop_recording ==
    /\ recording_active
    /\ recording_active' = FALSE
    /\ rec_owner' = "none"
    /\ UNCHANGED <<osVars, watcherVars, cfgVars, is_recording_for_game, current_game,
                   current_settings, timers, last, last_cmd>>

\* texts a hand edit can leave: an empty file, {}, [], a cut-off document
ExternalTexts ==
    { <<>>,
      << Punct("{"), Punct("}") >>,
      << Punct("["), Punct("]") >>,
      << Punct("{"), Key("games"), Punct("[") >> }

edit_file(text) ==
    /\ config_file' = File(text)
    /\ last' = Obs("file changed")
    /\ UNCHANGED <<osVars, watcherVars, games_config, icon_files, recVars, current_settings, timers,
                   last_cmd, rec_owner>>

delete_file ==
    /\ config_file.exists
    /\ config_file' = NoFile
    /\ last' = Obs("file changed")
    /\ UNCHANGED <<osVars, watcherVars, games_config, icon_files, recVars, current_settings, timers,
                   last_cmd, rec_owner>>

----------------------------------------------------------------------------
(* The watcher and the CLI commands that start and stop it.  Each command is *)
(* modelled step by step, so that two instances of the CLI interleave.       *)
(* game_watcher.pyw is not among the sources: that it writes its pid into    *)
(* the PID file when it starts and its state into the state file while it    *)
(* polls is taken from how the CLI reads and removes the two files.          *)

\* a CLI instance that is in neither start_watcher nor stop_watcher
Idle == [pc |-> "idle", pid |-> 0, watcher |-> FALSE]

NoWatcher ==
    /\ pid_file = <<>>
    /\ state_file = <<>>
    /\ watchers = [p \in {} |-> "booting"]
    /\ cli = [c \in Clis |-> Idle]
    /\ stopped = FALSE

watcherUnchanged == <<os_windows, cfgVars, recVars, current_settings, timers, last_cmd,
                      rec_owner>>

\* the process of this pid is gone from a table
without_pid(table, pid) == [q \in DOMAIN table \ {pid} |-> table[q]]

\* is_watcher_running(): (running, pid), pid 0 for None.  True when the PID file
\* holds a pid for which OpenProcess gives a handle, whatever process that is.
is_watcher_running(file, table) ==
    IF file # <<>> /\ file[1] \in DOMAIN table
    THEN [running |-> TRUE, pid |-> file[1]]
    ELSE [running |-> FALSE, pid |-> 0]

\* get_watcher_state(): the content of the state file, <<>> for None
get_watcher_state(file) == file

\* start_watcher: running, pid = is_watcher_running(); if running: return
start_watcher_check(c) ==
    LET r == is_watcher_running(pid_file, proc_table) IN
    /\ cli[c].pc = "idle"
    /\ cli' = [cli EXCEPT ![c] = IF r.running THEN Idle ELSE [Idle EXCEPT !.pc = "spawn"]]
    /\ stopped' = FALSE
    /\ UNCHANGED <<proc_table, pid_file, state_file, watchers, last, watcherUnchanged>>

\* start_watcher: subprocess.Popen(["pythonw", watcher_path]); the OS gives the new
\* process the free pid p; time.sleep(0.5)
start_watcher_spawn(c, p) ==
    /\ cli[c].pc = "spawn"
    /\ p \notin DOMAIN proc_table
    /\ proc_table' = (p :> <<"x">>) @@ proc_table
    /\ watchers' = (p :> "booting") @@ watchers
    /\ cli' = [cli EXCEPT ![c].pc = "recheck"]
    /\ UNCHANGED <<pid_file, state_file, stopped, last, watcherUnchanged>>

\* start_watcher: the second is_watcher_running(), which only decides what is printed
start_watcher_recheck(c) ==
    /\ cli[c].pc = "recheck"
    /\ cli' = [cli EXCEPT ![c] = Idle]
    /\ UNCHANGED <<proc_table, pid_file, state_file, watchers, stopped, last,
                   watcherUnchanged>>

\* stop_watcher: running, pid = is_watcher_running(); if not running: return
stop_watcher_check(c) ==
    LET r == is_watcher_running(pid_file, proc_table) IN
    /\ cli[c].pc = "idle"
    /\ cli' = [cli EXCEPT ![c] = IF r.running
                                 THEN [Idle EXCEPT !.pc = "terminate", !.pid = r.pid]
                                 ELSE Idle]
    /\ UNCHANGED <<proc_table, pid_file, state_file, watchers, stopped, last,
                   watcherUnchanged>>

\* stop_watcher: kernel32.TerminateProcess(kernel32.OpenProcess(1, False, pid), 0);
\* without a process of that pid OpenProcess gives NULL and nothing is terminated
stop_watcher_terminate(c) ==
    /\ cli[c].pc = "terminate"
    /\ proc_table' = without_pid(proc_table, cli[c].pid)
    /\ watchers' = without_pid(watchers, cli[c].pid)
    /\ cli' = [cli EXCEPT ![c].pc = "remove_pid",
                          ![c].watcher = cli[c].pid \in DOMAIN watchers]
    /\ UNCHANGED <<pid_file, state_file, stopped, last, watcherUnchanged>>

\* stop_watcher: if os.path.exists(PID_FILE): os.remove(PID_FILE)
stop_watcher_remove_pid(c) ==
    /\ cli[c].pc = "remove_pid"
    /\ pid_file' = <<>>
    /\ cli' = [cli EXCEPT ![c].pc = "remove_state"]
    /\ UNCHANGED <<proc_table, state_file, watchers, stopped, last, watcherUnchanged>>

\* stop_watcher: if os.path.exists(STATE_FILE): os.remove(STATE_FILE); the command
\* returns.  stopped: it has terminated a watcher and no other instance of the CLI
\* is inside start_watcher.
stop_watcher_remove_state(c) ==
    /\ cli[c].pc = "remove_state"
    /\ state_file' = <<>>
    /\ cli' = [cli EXCEPT ![c] = Idle]
    /\ stopped' = IF cli[c].watcher
                       /\ \A d \in Clis \ {c} : cli[d].pc \notin {"spawn", "recheck"}
                  THEN TRUE ELSE stopped
    /\ UNCHANGED <<proc_table, pid_file, watchers, last, watcherUnchanged>>

\* show_status: is_watcher_running() and get_watcher_state(); ok, idx, sel = running,
\* pid, state as printed
show_status(c) ==
    LET r == is_watcher_running(pid_file, proc_table) IN
    /\ cli[c].pc = "idle"
    /\ last' = [Obs("show_status") EXCEPT
                   !.ok = r.running, !.idx = r.pid, !.sel = get_watcher_state(state_file)]
    /\ UNCHANGED <<proc_table, watcherVars, watcherUnchanged>>

\* the watcher p, just started, writes its pid into the PID file
watcher_writes_pid(p) ==
    /\ p \in DOMAIN watchers
    /\ watchers[p] = "booting"
    /\ pid_file' = <<p>>
    /\ watchers' = [watchers EXCEPT ![p] = "polling"]
    /\ UNCHANGED <<proc_table, state_file, cli, stopped, last, watcherUnchanged>>

\* the watcher p writes the state it has found into the state file
watcher_writes_state(p, state) ==
    /\ p \in DOMAIN watchers
    /\ watchers[p] = "polling"
    /\ state_file' = <<state>>
    /\ UNCHANGED <<proc_table, pid_file, watchers, cli, stopped, last, watcherUnchanged>>

\* the watcher p is ended from outside (it crashes, the user kills it): its files stay
watcher_killed(p) ==
    /\ p \in DOMAIN watchers
    /\ proc_table' = without_pid(proc_table, p)
    /\ watchers' = without_pid(watchers, p)
    /\ UNCHANGED <<pid_file, state_file, cli, stopped, last, watcherUnchanged>>

----------------------------------------------------------------------------
(* Specifications *)

NoProcesses == [p \in {} |-> <<>>]

\* the module as imported, before OBS calls into it; no config file yet
InitScript ==
    /\ config_file = NoFile
    /\ games_config = EmptyConfig
    /\ icon_files = {}
    /\ recording_active = FALSE
    /\ is_recording_for_game = FALSE
    /\ current_game = <<>>
    /\ current_settings = "None"
    /\ timers = 0
    /\ last = Obs("init")
    /\ last_cmd = "none"
    /\ rec_owner = "none"
    /\ NoWatcher

\* the checkboxes "game_enabled_<selector>" of the settings: every pair of selectors
\* is seen checked and unchecked in all four ways
Settings == { st \in [Selectors \ {<<>>} -> BOOLEAN] :
                st[<<"b">>] = (st[<<"a">>] # st[<<"A">>]) }

\* Spec: the config and its two writers (the handlers of the OBS properties and
\* the manager CLI), with the file also edited or deleted from outside.
\* OBS has loaded the script (script_load, script_update) with no config file there;
\* nothing is recording and no imaging library is installed
\* (extract_icon_from_window returns False).  The timer tick is in SpecRecorder.
Init ==
    /\ config_file = File(json_dump(EmptyConfig))
    /\ games_config = EmptyConfig
    /\ icon_files = {}
    /\ recording_active = FALSE
    /\ is_recording_for_game = FALSE
    /\ current_game = <<>>
    /\ current_settings = "settings"
    /\ timers = 1
    /\ last = Obs("script_update")
    /\ last_cmd = "none"
    /\ rec_owner = "none"
    /\ NoWatcher
    /\ os_windows = << [title |-> <<"B">>, pid |-> 1, visible |-> TRUE] >>
    /\ proc_table = (1 :> <<"B">>)

\* What the user types into the two text fields of the OBS properties: an empty
\* name, or the name with every selector (empty, padded, differing in case).
AddInputs ==
    { << <<>>, <<"a">> >> } \cup { << <<"N", " ">>, sel >> : sel \in Typed }

\* What the user types at the three prompts of the terminal tool's "Add game":
\* an empty search term, an empty name, or a name with every selector (an empty
\* selector stands for the search term).
TerminalInputs ==
    { << <<>>, <<"N">>, <<"a">> >>, << <<"b">>, <<>>, <<"a">> >> }
        \cup { << <<"b">>, <<"N", " ">>, sel >> : sel \in Typed }

Next ==
    \/ script_load
    \/ \E st \in Settings : script_update(st)
    \/ \E i \in AddInputs : on_add_game_clicked(i[1], i[2], FALSE)
    \/ \E sel \in Selectors : on_remove_game_clicked(sel)
    \/ \E sel \in {<<"A">>, <<"b">>}, en \in BOOLEAN : call_set_game_enabled(sel, en)
    \/ \E st \in Settings : on_game_checkbox_changed(st)
    \/ \E i \in TerminalInputs : add_game_interactive(i[1], i[2], i[3])
    \/ \E sel \in Selectors \ {<<>>} : cli_add(<<"N">>, sel)
    \/ \E c \in 1..MaxGames : remove_game_interactive(c)
    \/ \E c \in 1..MaxGames : toggle_game_interactive(c)
    \/ list_games
    \/ \E text \in ExternalTexts : edit_file(text)
    \/ delete_file

Spec == Init /\ [][Next]_vars

\* SpecDetect: is_program_running over every desktop within the bounds
InitDetect ==
    /\ InitScript
    /\ os_windows = <<>>
    /\ proc_table = NoProcesses

NextDetect ==
    \/ \E t \in Titles, p \in Pids, v \in BOOLEAN : open_window(t, p, v)
    \/ \E i \in 1..MaxWindows : close_window(i)
    \/ \E p \in Pids, e \in ExeNames : start_process(p, e)
    \/ \E p \in Pids : exit_process(p)
    \/ \E sel \in Targets : call_is_program_running(sel)

SpecDetect == InitDetect /\ [][NextDetect]_vars

\* SpecRecorder: the timer tick against games that come and go and a user at the
\* record button; the config is one of RecorderConfigs, loaded by script_update
RecorderGame(selector, enabled) ==
    [name |-> <<"N">>, selector |-> selector, icon_path |-> <<>>, enabled |-> enabled]

RecorderConfigs ==
    { JsonObject({"games"}, gs) : gs \in
        { << RecorderGame(<<"a">>, TRUE),  RecorderGame(<<"b">>, TRUE) >>,
          << RecorderGame(<<"b">>, FALSE), RecorderGame(<<"A">>, TRUE) >>,
          << RecorderGame(<<>>, TRUE),     RecorderGame(<<"b">>, TRUE) >>,
          << RecorderGame(<<"a">>, FALSE) >>,
          << >> } }

InitRecorder ==
    /\ os_windows = <<>>
    /\ proc_table = NoProcesses
    /\ games_config \in RecorderConfigs
    /\ config_file = File(json_dump(games_config))
    /\ icon_files = {}
    /\ recording_active = FALSE
    /\ is_recording_for_game = FALSE
    /\ current_game = <<>>
    /\ current_settings = "settings"
    /\ timers = 1
    /\ last = Obs("script_update")
    /\ last_cmd = "none"
    /\ rec_owner = "none"
    /\ NoWatcher

NextRecorder ==
    \/ \E x \in BOOLEAN : check_program_callback(x)
    \/ \E p \in Pids, t \in Titles : launch_game(p, t, <<"x">>)
    \/ \E p \in Pids : close_game(p)
    \/ user_start_recording
    \/ user_stop_recording

SpecRecorder == InitRecorder /\ [][NextRecorder]_vars

\* the configs whose entries all have a checkbox in Settings
TimerConfigs ==
    { c \in RecorderConfigs :
        \A i \in 1..Len(c.games) : c.games[i].selector \in DOMAIN (CHOOSE st \in Settings : TRUE) }

\* SpecTimer: OBS loading, updating and unloading the script, from the module as
\* imported, with any of TimerConfigs (or no file) on disk and nothing on the
\* desktop; the timer fires while it is registered
InitTimer ==
    /\ os_windows = <<>>
    /\ proc_table = NoProcesses
    /\ config_file \in {NoFile} \cup { File(json_dump(c)) : c \in TimerConfigs }
    /\ games_config = EmptyConfig
    /\ icon_files = {}
    /\ recording_active = FALSE
    /\ is_recording_for_game = FALSE
    /\ current_game = <<>>
    /\ current_settings = "None"
    /\ timers = 0
    /\ last = Obs("init")
    /\ last_cmd = "none"
    /\ rec_owner = "none"
    /\ NoWatcher

NextTimer ==
    \/ script_load
    \/ \E st \in Settings : script_update(st)
    \/ script_unload
    \/ check_program_callback(FALSE)
    \/ delete_file

SpecTimer == InitTimer /\ [][NextTimer]_vars

\* SpecPersist: everything of the OBS script that changes its config in memory (the
\* buttons, the checkboxes, script_update, set_game_enabled, the icon extraction of
\* the timer tick and of the Add button, succeeding or not), with the CLI toggling
\* entries in the file in between.  One window, which both selectors match, is on
\* the desktop; the script has been loaded and updated on an empty config.
InitPersist ==
    /\ os_windows = << [title |-> <<"a", "B">>, pid |-> 1, visible |-> TRUE] >>
    /\ proc_table = (1 :> <<"x">>)
    /\ config_file = File(json_dump(EmptyConfig))
    /\ games_config = EmptyConfig
    /\ icon_files = {}
    /\ recording_active = FALSE
    /\ is_recording_for_game = FALSE
    /\ current_game = <<>>
    /\ current_settings = "settings"
    /\ timers = 1
    /\ last = Obs("script_update")
    /\ last_cmd = "none"
    /\ rec_owner = "none"
    /\ NoWatcher

NextPersist ==
    \/ \E st \in Settings : script_update(st)
    \/ \E sel \in {<<"a">>, <<"b">>}, x \in BOOLEAN : on_add_game_clicked(<<"N">>, sel, x)
    \/ \E sel \in {<<"a">>, <<"b">>} : on_remove_game_clicked(sel)
    \/ \E sel \in {<<"a">>, <<"b">>}, en \in BOOLEAN : call_set_game_enabled(sel, en)
    \/ \E st \in Settings : on_game_checkbox_changed(st)
    \/ \E x \in BOOLEAN : check_program_callback(x)
    \/ \E c \in 1..MaxGames : toggle_game_interactive(c)

SpecPersist == InitPersist /\ [][NextPersist]_vars

\* SpecRemove: the Remove and Add buttons of the OBS script on configs that the
\* CLI's --add has filled, entries with selectors equal ignoring case included
NextRemove ==
    \/ \E sel \in Selectors : on_remove_game_clicked(sel)
    \/ \E sel \in Selectors \ {<<>>} : on_add_game_clicked(<<"N">>, sel, FALSE)
    \/ \E name \in {<<"N">>, <<"M">>}, sel \in Selectors \ {<<>>} : cli_add(name, sel)
    \/ script_load

SpecRemove == Init /\ [][NextRemove]_vars

\* SpecWatcher: two instances of the CLI starting and stopping the watcher and
\* showing its status, the watchers writing their files, a watcher ended from
\* outside and another program started under a free pid
NextWatcher ==
    \/ \E c \in Clis : start_watcher_check(c)
    \/ \E c \in Clis, p \in Pids : start_watcher_spawn(c, p)
    \/ \E c \in Clis : start_watcher_recheck(c)
    \/ \E c \in Clis : stop_watcher_check(c)
    \/ \E c \in Clis : stop_watcher_terminate(c)
    \/ \E c \in Clis : stop_watcher_remove_pid(c)
    \/ \E c \in Clis : stop_watcher_remove_state(c)
    \/ \E c \in Clis : show_status(c)
    \/ \E p \in Pids : watcher_writes_pid(p)
    \/ \E p \in Pids, state \in WatcherStates : watcher_writes_state(p, state)
    \/ \E p \in Pids : watcher_killed(p)
    \/ \E p \in Pids : start_process(p, <<"A", "b">>)

SpecWatcher == InitDetect /\ [][NextWatcher]_vars

----------------------------------------------------------------------------
(* Claims *)

\* the selector is a case-insensitive substring of the title of some visible titled
\* window or of the executable name of some running process
SelectorOnDesktop(selector) ==
    \/ \E i \in 1..Len(os_windows) :
          /\ os_windows[i].visible
          /\ os_windows[i].title # <<>>
          /\ str_in(lower(selector), lower(os_windows[i].title))
    \/ \E p \in DOMAIN proc_table : str_in(lower(selector), lower(proc_table[p]))

\* C1: whatever the desktop and the process table are, is_program_running over
\* get_processes_detailed answers True for a (non-empty) selector if and only if the
\* selector is a case-insensitive substring of some visible window title or of some
\* running executable name.
C1_DetectedIffSubstring ==
    [][\A t \in Targets \ {<<>>} :
          call_is_program_running(t) => (last'.ok <=> SelectorOnDesktop(t))]_vars


\* the game list that the config file holds
StoredGames == get_games(cli_load_config(config_file))

HasSelector(games, selector) ==
    \E i \in 1..Len(games) : lower(games[i].selector) = lower(selector)

\* the selector that add_game_interactive ends up with
TerminalSelector(term_in, selector_in) ==
    IF strip(selector_in) # <<>> THEN strip(selector_in) ELSE strip(term_in)

\* C2: on each of the three add paths (the Add button of the OBS script, the
\* interactive add of the CLI, --add <name> <selector>), adding a game whose selector
\* equals, ignoring case, that of an entry already in the config appends nothing: the
\* stored game list is unchanged.
C2_DuplicateRejected ==
    [][ /\ \A i \in AddInputs :
              on_add_game_clicked(i[1], i[2], FALSE) /\ HasSelector(StoredGames, strip(i[2]))
                  => StoredGames' = StoredGames
        /\ \A i \in TerminalInputs :
              add_game_interactive(i[1], i[2], i[3])
                      /\ HasSelector(StoredGames, TerminalSelector(i[1], i[3]))
                  => StoredGames' = StoredGames
        /\ \A sel \in Selectors \ {<<>>} :
              cli_add(<<"N">>, sel) /\ HasSelector(StoredGames, sel)
                  => StoredGames' = StoredGames ]_vars

\* `after` is `before` with at most one entry taken out
OneRemoved(before, after) ==
    \/ after = before
    \/ \E k \in 1..Len(before) : after = remove_at(before, k)

\* `after` is `before` with at most one entry's enabled flag changed
OneToggled(before, after) ==
    /\ Len(after) = Len(before)
    /\ \E k \in 0..Len(before) :
          \A j \in 1..Len(before) :
             \/ after[j] = before[j]
             \/ j = k /\ after[j] = [before[j] EXCEPT !.enabled = ~@]

\* C3: toggling one game (set_game_enabled, toggle_game_interactive) or removing one
\* game (remove_game behind the Remove button, remove_game_interactive) leaves every
\* other entry present, in the same order, with the same fields: the config that the
\* operation saves is the one it started from with one entry taken out, or with one
\* entry's enabled flag changed.
C3_OthersUnchanged ==
    [][ /\ last'.op \in {"remove_game", "remove_game_interactive"}
              => OneRemoved(StoredGames, get_games(last'.saved[1]))
        /\ last'.op = "set_game_enabled" /\ last'.ok
              => OneToggled(get_games(games_config), get_games(last'.saved[1]))
        /\ last'.op = "toggle_game_interactive"
              => OneToggled(StoredGames, get_games(last'.saved[1])) ]_vars

\* the config file is missing or is not valid JSON
FileUnusable == ~config_file.exists \/ ~json_load(config_file.text).ok

\* C7: in the OBS script (script_load) as in the CLI (list_games), what load_config
\* returns always has a "games" list, and it is the empty config {"games": []} when
\* the file is missing or is not valid JSON.
C7_LoadGivesGames ==
    /\ last.op = "script_load" =>
          /\ has_games_key(games_config)
          /\ FileUnusable => games_config = EmptyConfig
    /\ last.op = "list_games" =>
          /\ has_games_key(last.val)
          /\ FileUnusable => last.val = EmptyConfig

\* every entry of `before` is still in `after`, by name and selector
NoneDropped(before, after) ==
    \A i \in 1..Len(before) :
       \E j \in 1..Len(after) :
          after[j].name = before[i].name /\ after[j].selector = before[i].selector

\* C8: the save that on_game_checkbox_changed makes keeps every entry that the file
\* held, whoever wrote it: an entry that the CLI wrote is not dropped.
C8_NoLostUpdate ==
    [][ last'.op = "on_game_checkbox_changed"
            => NoneDropped(StoredGames, get_games(last'.saved[1])) ]_vars

Eligible(i) ==
    LET game == get_games(games_config)[i] IN
    /\ game.enabled
    /\ game.selector # <<>>
    /\ is_program_running(game.selector,
                          get_processes_detailed(os_windows, proc_table)).running

\* the first eligible entry, 0 when there is none
FirstEligible ==
    IF \E i \in 1..Len(get_games(games_config)) : Eligible(i)
    THEN CHOOSE i \in 1..Len(get_games(games_config)) :
            Eligible(i) /\ \A j \in 1..(i - 1) : ~Eligible(j)
    ELSE 0

\* C5: at every tick check_any_game_running returns the first entry, in list order,
\* that is enabled and whose non-empty selector matches the snapshot; it returns
\* (None, None) exactly when there is no such entry.
C5_FirstEnabledMatch ==
    [][ (\E x \in BOOLEAN : check_program_callback(x)) => last'.idx = FirstEligible ]_vars

\* a tick has returned the second entry although the selector of the first, disabled,
\* entry matches the desktop too
C5_Witness ==
    /\ last.op = "check_program_callback"
    /\ last.idx = 2
    /\ FirstEligible = 2
    /\ ~games_config.games[1].enabled
    /\ is_program_running(games_config.games[1].selector,
                          get_processes_detailed(os_windows, proc_table)).running

\* C6: at every tick at which an enabled configured game is detected and the host
\* reports that it is not recording, the callback issues the start command.
C6_StartWhenGameAndIdle ==
    [][ (\E x \in BOOLEAN : check_program_callback(x))
            /\ last'.idx # 0 /\ ~recording_active
        => last'.cmd = "start" ]_vars

\* C9: the callback issues stop only at a tick at which no game is detected and
\* is_recording_for_game is true, and never while the recording that is on is one
\* the user had started before the game was first detected.
C9_StopOnlyOwnRecording ==
    [][ (\E x \in BOOLEAN : check_program_callback(x)) /\ last'.cmd = "stop"
        => /\ last'.idx = 0
           /\ is_recording_for_game
           /\ rec_owner # "user_before_game" ]_vars

\* C10: the start and stop commands of the callback alternate, beginning with start:
\* a start follows no command or a stop, a stop follows a start.
C10_CommandsAlternate ==
    last.op = "check_program_callback" =>
        /\ last.cmd = "start" => last.prev_cmd \in {"none", "stop"}
        /\ last.cmd = "stop"  => last.prev_cmd = "start"

\* a start has been issued after a stop
C10_Witness ==
    /\ last.op = "check_program_callback"
    /\ last.cmd = "start"
    /\ last.prev_cmd = "stop"

\* current_game and `entry` are the same game: the same name and selector
SameGame(current, entry) ==
    current # <<>> /\ current[1].name = entry.name /\ current[1].selector = entry.selector

\* C11: through the timer ticks is_recording_for_game is true exactly when
\* current_game is not None; current_game becomes the entry detected at the tick that
\* issues start, and it stays that game until the stop, also while another game is
\* the detected one.
C11_FlagIffCurrentGame ==
    [][ /\ is_recording_for_game  <=> current_game  # <<>>
        /\ is_recording_for_game' <=> current_game' # <<>>
        /\ (\E x \in BOOLEAN : check_program_callback(x)) /\ last'.cmd = "start"
              => current_game' = << games_config'.games[last'.idx] >>
        /\ ~((\E x \in BOOLEAN : check_program_callback(x)) /\ last'.cmd # "none")
              => \/ current_game' = current_game
                 \/ /\ current_game # <<>> /\ current_game' # <<>>
                    /\ SameGame(current_game', current_game[1]) ]_vars

\* the script is recording for the second entry while the first entry is the one a
\* tick has just detected
C11_Witness ==
    /\ last.op = "check_program_callback"
    /\ last.idx = 1
    /\ last.cmd = "none"
    /\ is_recording_for_game
    /\ SameGame(current_game, games_config.games[2])
    /\ ~SameGame(current_game, games_config.games[1])

\* C12: after any sequence of script_load, script_update and script_unload at most
\* one registration of check_program_callback exists: script_update leaves exactly
\* one, whatever it found, and script_unload leaves none.
C12_AtMostOneTimer ==
    /\ timers <= 1
    /\ last.op = "script_update" => timers = 1
    /\ last.op = "script_unload" => timers = 0

\* script_update has run with the timer already registered
C12_Witness ==
    /\ last.op = "script_update"
    /\ last.had_timers = 1
    /\ timers = 1

\* the operations of the OBS script that change games_config other than by loading it
ScriptMutators ==
    { "add_game", "remove_game", "set_game_enabled", "on_game_checkbox_changed",
      "script_update", "check_program_callback" }

LoadedGames == get_games(obs_load_config(config_file).config)

\* C14: after remove_game(selector) no entry whose selector equals the argument
\* ignoring case is left, however many there were, and add_game with that selector
\* then succeeds; when no entry matches, the game list is left as it was.
C14_RemoveAllMatches ==
    [][ last'.op = "remove_game" =>
          \A sel \in Selectors :
             on_remove_game_clicked(sel) =>
                /\ ~HasSelector(get_games(games_config'), sel)
                /\ add_game(games_config', <<"N">>, sel, TRUE).ok
                /\ last'.removed =
                      Cardinality({ i \in 1..Len(LoadedGames) :
                                      lower(LoadedGames[i].selector) = lower(sel) })
                /\ ~HasSelector(LoadedGames, sel)
                      => get_games(games_config') = LoadedGames ]_vars

\* the Remove button has dropped two entries at once
C14_Witness ==
    /\ last.op = "remove_game"
    /\ last.removed = 2
    /\ get_games(games_config) = <<>>
    /\ config_file = obs_save_config(games_config)

\* C15: however start_watcher and stop_watcher of the CLI instances interleave, at
\* most one watcher process that start_watcher spawned is alive.
C15_AtMostOneWatcher == Cardinality(DOMAIN watchers) <= 1

\* C16: once stop_watcher has completed on a running watcher, and until the next
\* start, the PID file and the state file are absent, is_watcher_running answers
\* (False, None) and get_watcher_state None; and is_watcher_running answers True only
\* when the pid in the PID file is that of a live watcher process.
C16_StoppedAndLive ==
    /\ stopped =>
          /\ pid_file = <<>>
          /\ state_file = <<>>
          /\ ~is_watcher_running(pid_file, proc_table).running
          /\ get_watcher_state(state_file) = <<>>
    /\ is_watcher_running(pid_file, proc_table).running => pid_file[1] \in DOMAIN watchers

============================================================================
